---- MODULE Spec2Model ----
(***************************************************************************)
(* Recurrence-and-streak engine of talender (src-tauri/src/db.rs).         *)
(*                                                                         *)
(* The SQLite tables are the state: task, task_schedule, task_completion   *)
(* and task_stats, plus the connection's open-transaction flag and the     *)
(* wall clock's day index.  Every command of db.rs is one action (the      *)
(* commands run under one mutex, lib.rs), built from an operator that maps *)
(* a database value to the database value the command leaves behind.       *)
(* mutex is the command that holds AppState.db; the specification          *)
(* SpecLock runs edit_task and toggle_completion statement by statement    *)
(* under it.                                                               *)
(***************************************************************************)
EXTENDS Integers, Sequences, FiniteSets, TLC

VARIABLES today, task, task_seq, task_schedule, task_completion, task_stats,
          in_txn, last, mutex

vars == <<today, task, task_seq, task_schedule, task_completion, task_stats,
          in_txn, last, mutex>>

(***************************************************************************)
(* Bounds of the model.                                                    *)
(***************************************************************************)
\* first day index of a behaviour (day 9 = Saturday 1970-01-10)
StartDay == 9
\* number of days the clock may advance
MaxAdvance == 2
\* AUTOINCREMENT ids handed out by the task table
MaxTasks == 2
\* rows of task_schedule
MaxSchedules == 3
\* toggle_completion is called for days today-ToggleBack .. today+ToggleAhead
ToggleBack == 0
ToggleAhead == 0

\* the weekend scenario: first day index (day 8 = Friday 1970-01-09) and the
\* number of days the clock may advance (day 25 = Monday 1970-01-26)
WeekendStartDay == 8
WeekendAdvance == 17

MaxDay == StartDay + MaxAdvance

(***************************************************************************)
(* Values.                                                                 *)
(***************************************************************************)
\* Option::None / SQL NULL of an Option<i64> column
None == -1000

Titles == {"a"}

Desc(t, m, md, i) ==
    [type |-> t, weekday_mask |-> m, monthday |-> md, interval_days |-> i]

Daily == Desc("daily", None, None, None)
\* weekday_mask bit 0: Mondays
Mondays == Desc("weekly", 1, None, None)
\* weekday_mask bits 5 and 6: Saturdays and Sundays
Weekend == Desc("weekly", 96, None, None)
\* due on the same days as Daily
EveryDay == Desc("custom", None, None, 1)
\* rejected by CHECK(monthday BETWEEN 1 AND 28)
Monthly29 == Desc("monthly", None, 29, None)

MainDescs == {Daily, Mondays, EveryDay, Monthly29}

(***************************************************************************)
(* Calendar: chrono's date of a day index (days since 1970-01-01, a        *)
(* Thursday) and its day index of a date, by the Gregorian rules.          *)
(***************************************************************************)
Weekday(day) == (day + 3) % 7

IsLeap(year) == (year % 4 = 0 /\ year % 100 # 0) \/ year % 400 = 0

DaysInMonth(year, month) ==
    IF month = 2 THEN (IF IsLeap(year) THEN 29 ELSE 28)
    ELSE IF month \in {4, 6, 9, 11} THEN 30
    ELSE 31

\* the date that lies day days after the first of the month
RECURSIVE DateFrom(_, _, _)
DateFrom(year, month, day) ==
    IF day < 0
    THEN IF month = 1 THEN DateFrom(year - 1, 12, day + 31)
         ELSE DateFrom(year, month - 1, day + DaysInMonth(year, month - 1))
    ELSE IF day >= DaysInMonth(year, month)
    THEN IF month = 12 THEN DateFrom(year + 1, 1, day - 31)
         ELSE DateFrom(year, month + 1, day - DaysInMonth(year, month))
    ELSE [year |-> year, month |-> month, day |-> day + 1]

\* DateTime::from_timestamp(day * 86400, 0).date_naive()
DateOf(day) == DateFrom(1970, 1, day)

DayOfMonth(day) == DateOf(day).day

\* the day index of NaiveDate::from_ymd_opt(year, month, 1), 1970 or later
RECURSIVE FirstOfMonth(_, _)
FirstOfMonth(year, month) ==
    IF year = 1970 /\ month = 1 THEN 0
    ELSE IF month = 1 THEN FirstOfMonth(year - 1, 12) + 31
    ELSE FirstOfMonth(year, month - 1) + DaysInMonth(year, month - 1)

RECURSIVE Pow2(_)
Pow2(n) == IF n = 0 THEN 1 ELSE 2 * Pow2(n - 1)

\* (mask & (1 << weekday)) != 0
BitSet(mask, weekday) == (mask \div Pow2(weekday)) % 2 = 1

(***************************************************************************)
(* The database as one value.                                              *)
(***************************************************************************)
DB == [task |-> task, task_seq |-> task_seq, task_schedule |-> task_schedule,
       task_completion |-> task_completion, task_stats |-> task_stats,
       in_txn |-> in_txn]

\* CHECK constraints of task_schedule
ScheduleChecksPass(d) ==
    /\ d.type \in {"daily", "weekly", "monthly", "custom"}
    /\ (d.monthday = None \/ (d.monthday >= 1 /\ d.monthday <= 28))

\* ids of the rows "WHERE task_id = ? AND effective_to IS NULL"
ActiveIds(db, task_id) ==
    {i \in 1..Len(db.task_schedule) :
        /\ db.task_schedule[i].task_id = task_id
        /\ db.task_schedule[i].effective_to = None}

\* query_row takes the first row of the result
FirstId(ids) == CHOOSE i \in ids : \A j \in ids : i <= j

(***************************************************************************)
(* is_task_due                                                             *)
(***************************************************************************)
\* is_task_due numbering the weekdays from Sunday (num_days_from_sunday)
is_task_due_SundayFirst(schedule, day) ==
    IF day < schedule.effective_from THEN FALSE
    ELSE IF schedule.type = "daily" THEN TRUE
    ELSE IF schedule.type = "weekly" THEN
        IF schedule.weekday_mask # None
        THEN BitSet(schedule.weekday_mask, (Weekday(day) + 1) % 7)
        ELSE FALSE
    ELSE IF schedule.type = "monthly" THEN
        IF schedule.monthday # None
        THEN DayOfMonth(day) = schedule.monthday
        ELSE FALSE
    ELSE IF schedule.type = "custom" THEN
        IF schedule.interval_days # None
        THEN IF schedule.interval_days <= 0 THEN FALSE
             ELSE (day - schedule.effective_from) % schedule.interval_days = 0
        ELSE FALSE
    ELSE FALSE

\* is_task_due reading an absent mask as every weekday
is_task_due_AbsentMaskAllDays(schedule, day) ==
    IF day < schedule.effective_from THEN FALSE
    ELSE IF schedule.type = "daily" THEN TRUE
    ELSE IF schedule.type = "weekly" THEN
        IF schedule.weekday_mask # None
        THEN BitSet(schedule.weekday_mask, Weekday(day))
        ELSE TRUE
    ELSE IF schedule.type = "monthly" THEN
        IF schedule.monthday # None
        THEN DayOfMonth(day) = schedule.monthday
        ELSE FALSE
    ELSE IF schedule.type = "custom" THEN
        IF schedule.interval_days # None
        THEN IF schedule.interval_days <= 0 THEN FALSE
             ELSE (day - schedule.effective_from) % schedule.interval_days = 0
        ELSE FALSE
    ELSE FALSE

\* is_task_due without its test of effective_from
is_task_due_NoStart(schedule, day) ==
    IF schedule.type = "daily" THEN TRUE
    ELSE IF schedule.type = "weekly" THEN
        IF schedule.weekday_mask # None
        THEN BitSet(schedule.weekday_mask, Weekday(day))
        ELSE FALSE
    ELSE IF schedule.type = "monthly" THEN
        IF schedule.monthday # None
        THEN DayOfMonth(day) = schedule.monthday
        ELSE FALSE
    ELSE IF schedule.type = "custom" THEN
        IF schedule.interval_days # None
        THEN IF schedule.interval_days <= 0 THEN FALSE
             ELSE IF day >= schedule.effective_from
                  THEN (day - schedule.effective_from) % schedule.interval_days = 0
                  ELSE FALSE
        ELSE FALSE
    ELSE FALSE

\* is_task_due counting the interval from day 0
is_task_due_IntervalFromEpoch(schedule, day) ==
    IF day < schedule.effective_from THEN FALSE
    ELSE IF schedule.type = "daily" THEN TRUE
    ELSE IF schedule.type = "weekly" THEN
        IF schedule.weekday_mask # None
        THEN BitSet(schedule.weekday_mask, Weekday(day))
        ELSE FALSE
    ELSE IF schedule.type = "monthly" THEN
        IF schedule.monthday # None
        THEN DayOfMonth(day) = schedule.monthday
        ELSE FALSE
    ELSE IF schedule.type = "custom" THEN
        IF schedule.interval_days # None
        THEN IF schedule.interval_days <= 0 THEN FALSE
             ELSE day % schedule.interval_days = 0
        ELSE FALSE
    ELSE FALSE

is_task_due(schedule, day) ==
    IF day < schedule.effective_from THEN FALSE
    ELSE IF schedule.type = "daily" THEN TRUE
    ELSE IF schedule.type = "weekly" THEN
        IF schedule.weekday_mask # None
        THEN BitSet(schedule.weekday_mask, Weekday(day))
        ELSE FALSE
    ELSE IF schedule.type = "monthly" THEN
        IF schedule.monthday # None
        THEN DayOfMonth(day) = schedule.monthday
        ELSE FALSE
    ELSE IF schedule.type = "custom" THEN
        IF schedule.interval_days # None
        THEN IF schedule.interval_days <= 0 THEN FALSE
             ELSE IF day >= schedule.effective_from
                  THEN (day - schedule.effective_from) % schedule.interval_days = 0
                  ELSE FALSE
        ELSE FALSE
    ELSE FALSE

(***************************************************************************)
(* update_task_stats                                                       *)
(***************************************************************************)
\* "if today - loop_day > 1000 { break; }"
ScanCap == 1000

CompletedDays(db, task_id) ==
    {c[2] : c \in {x \in db.task_completion : x[1] = task_id}}

\* StreakScan with the loop bound one day too low (loop_day >= min_day - 1)
RECURSIVE StreakScanPastStart(_, _, _, _, _)
StreakScanPastStart(schedule, completions, loop_day, now, current_streak) ==
    IF loop_day < schedule.effective_from - 1 THEN current_streak
    ELSE IF (loop_day < schedule.effective_from
                \/ is_task_due(schedule, loop_day))
            /\ loop_day \notin completions
         THEN current_streak
    ELSE StreakScanPastStart(schedule, completions, loop_day - 1, now,
                             current_streak + 1)

\* the while loop: loop_day walks down from its start to effective_from
RECURSIVE StreakScan(_, _, _, _, _)
StreakScan(schedule, completions, loop_day, now, current_streak) ==
    IF loop_day < schedule.effective_from THEN current_streak
    ELSE IF is_task_due(schedule, loop_day) /\ loop_day \notin completions
         THEN current_streak
    ELSE LET counted == IF is_task_due(schedule, loop_day)
                        THEN current_streak + 1 ELSE current_streak
         IN  IF now - (loop_day - 1) > ScanCap THEN counted
             ELSE StreakScan(schedule, completions, loop_day - 1, now, counted)

\* ComputeStreak starting at today whether or not today is completed
ComputeStreakNoGrace(schedule, completions, now) ==
    StreakScan(schedule, completions, now, now, 0)

\* the streak the function computes for a schedule
ComputeStreak(schedule, completions, now) ==
    StreakScan(schedule, completions,
               IF now \in completions THEN now ELSE now - 1, now, 0)

Max(a, b) == IF a >= b THEN a ELSE b

\* update_task_stats whose UPDATE sets current_streak only
update_task_stats_CurrentOnly(db, task_id, now) ==
    IF ActiveIds(db, task_id) = {} THEN db
    ELSE LET schedule == db.task_schedule[FirstId(ActiveIds(db, task_id))]
             current_streak ==
                 ComputeStreak(schedule, CompletedDays(db, task_id), now)
         IN  IF task_id \notin DOMAIN db.task_stats THEN db
             ELSE [db EXCEPT !.task_stats[task_id] =
                      [@ EXCEPT !.current_streak = current_streak]]

\* update_task_stats whose UPDATE sets best_streak to the new streak
update_task_stats_BestIsCurrent(db, task_id, now) ==
    IF ActiveIds(db, task_id) = {} THEN db
    ELSE LET schedule == db.task_schedule[FirstId(ActiveIds(db, task_id))]
             current_streak ==
                 ComputeStreak(schedule, CompletedDays(db, task_id), now)
         IN  IF task_id \notin DOMAIN db.task_stats THEN db
             ELSE [db EXCEPT !.task_stats[task_id] =
                      [@ EXCEPT !.current_streak = current_streak,
                                !.best_streak = current_streak]]

update_task_stats(db, task_id, now) ==
    IF ActiveIds(db, task_id) = {} THEN db
    ELSE LET schedule == db.task_schedule[FirstId(ActiveIds(db, task_id))]
             current_streak ==
                 ComputeStreak(schedule, CompletedDays(db, task_id), now)
         IN  IF task_id \notin DOMAIN db.task_stats THEN db
             ELSE [db EXCEPT !.task_stats[task_id] =
                      [@ EXCEPT !.current_streak = current_streak,
                                !.best_streak = Max(@, current_streak)]]

(***************************************************************************)
(* Commands.  Each yields the database it leaves and whether it returned   *)
(* Ok.  An error return after BEGIN leaves the transaction open.           *)
(***************************************************************************)
Ret(db, ok) == [db |-> db, ok |-> ok]

NewSchedule(task_id, now, d) ==
    [task_id |-> task_id, effective_from |-> now, effective_to |-> None,
     type |-> d.type, weekday_mask |-> d.weekday_mask,
     monthday |-> d.monthday, interval_days |-> d.interval_days]

add_task(db, title, d, now) ==
    IF db.in_txn THEN Ret(db, FALSE)
    ELSE LET task_id == db.task_seq + 1
             db1 == [db EXCEPT !.in_txn = TRUE,
                               !.task = @ @@ (task_id :> title),
                               !.task_seq = task_id]
         IN  IF ~ScheduleChecksPass(d) THEN Ret(db1, FALSE)
             ELSE Ret([db1 EXCEPT
                         !.task_schedule =
                             Append(@, NewSchedule(task_id, now, d)),
                         !.task_stats = @ @@ (task_id :>
                             [current_streak |-> 0, best_streak |-> 0,
                              last_completed_day |-> None]),
                         !.in_txn = FALSE], TRUE)

\* toggle_completion that recomputes the streak after an INSERT only
toggle_completion_NoRecomputeOnDelete(db, task_id, day, now) ==
    IF db.in_txn THEN Ret(db, FALSE)
    ELSE LET db1 == [db EXCEPT !.in_txn = TRUE]
         IN  IF <<task_id, day>> \in db.task_completion
             THEN Ret([db1 EXCEPT !.task_completion = @ \ {<<task_id, day>>},
                                  !.in_txn = FALSE], TRUE)
             ELSE IF task_id \notin DOMAIN db.task THEN Ret(db1, FALSE)
             ELSE Ret([update_task_stats(
                          [db1 EXCEPT !.task_completion =
                                          @ \cup {<<task_id, day>>}],
                          task_id, now)
                       EXCEPT !.in_txn = FALSE], TRUE)

toggle_completion(db, task_id, day, now) ==
    IF db.in_txn THEN Ret(db, FALSE)
    ELSE LET db1 == [db EXCEPT !.in_txn = TRUE]
         IN  IF <<task_id, day>> \in db.task_completion
             THEN Ret([update_task_stats(
                          [db1 EXCEPT !.task_completion =
                                          @ \ {<<task_id, day>>}],
                          task_id, now)
                       EXCEPT !.in_txn = FALSE], TRUE)
             \* FOREIGN KEY(task_id) REFERENCES task(id)
             ELSE IF task_id \notin DOMAIN db.task THEN Ret(db1, FALSE)
             ELSE Ret([update_task_stats(
                          [db1 EXCEPT !.task_completion =
                                          @ \cup {<<task_id, day>>}],
                          task_id, now)
                       EXCEPT !.in_txn = FALSE], TRUE)

\* schedule_changed comparing the mask with the new monthday
schedule_changed_MaskVsMonthday(cur, d) ==
    \/ cur.type # d.type
    \/ cur.weekday_mask # d.monthday
    \/ cur.monthday # d.monthday
    \/ cur.interval_days # d.interval_days

schedule_changed(cur, d) ==
    \/ cur.type # d.type
    \/ cur.weekday_mask # d.weekday_mask
    \/ cur.monthday # d.monthday
    \/ cur.interval_days # d.interval_days

\* CloseSchedule closing the rule on the day of the edit
CloseScheduleToday(db, current_id, now) ==
    [db EXCEPT !.task_schedule[current_id].effective_to = now]

\* CloseSchedule without its UPDATE
CloseScheduleSkipped(db, current_id, now) == db

\* "UPDATE task_schedule SET effective_to = today - 1 WHERE id = current_id"
CloseSchedule(db, current_id, now) ==
    [db EXCEPT !.task_schedule[current_id].effective_to = now - 1]

\* InsertSchedule starting the new rule on the day before the edit
InsertScheduleYesterday(db, task_id, now, d) ==
    [db EXCEPT !.task_schedule = Append(@, NewSchedule(task_id, now - 1, d))]

\* "INSERT INTO task_schedule (task_id, effective_from, type, ...)"
InsertSchedule(db, task_id, now, d) ==
    [db EXCEPT !.task_schedule = Append(@, NewSchedule(task_id, now, d))]

\* ResetStats without its UPDATE
ResetStatsSkipped(db, task_id) == db

\* "UPDATE task_stats SET current_streak = 0, last_completed_day = NULL"
ResetStats(db, task_id) ==
    [db EXCEPT !.task_stats =
        [i \in DOMAIN @ |->
            IF i = task_id
            THEN [@[i] EXCEPT !.current_streak = 0,
                              !.last_completed_day = None]
            ELSE @[i]]]

edit_task(db, task_id, new_title, d, now) ==
    IF db.in_txn THEN Ret(db, FALSE)
    ELSE LET db1 == [db EXCEPT
                       !.in_txn = TRUE,
                       !.task = [i \in DOMAIN @ |->
                                    IF i = task_id THEN new_title ELSE @[i]]]
         IN  \* query_row: Err(QueryReturnedNoRows)
             IF ActiveIds(db1, task_id) = {} THEN Ret(db1, FALSE)
             ELSE LET current_id == FirstId(ActiveIds(db1, task_id))
                      db2 == CloseSchedule(db1, current_id, now)
                  IN  IF ~schedule_changed(db1.task_schedule[current_id], d)
                      THEN Ret([db1 EXCEPT !.in_txn = FALSE], TRUE)
                      ELSE IF ~ScheduleChecksPass(d) THEN Ret(db2, FALSE)
                      ELSE Ret([ResetStats(
                                   InsertSchedule(db2, task_id, now, d),
                                   task_id)
                                EXCEPT !.in_txn = FALSE], TRUE)

(***************************************************************************)
(* check_week_perfect and get_weekly_streak                                *)
(***************************************************************************)
\* "WHERE s.effective_from <= end AND (s.effective_to IS NULL OR
\*  s.effective_to >= start)", in table order
Overlapping(db, start_day, end_day) ==
    SelectSeq(db.task_schedule,
              LAMBDA s : /\ s.effective_from <= end_day
                         /\ (s.effective_to = None \/ s.effective_to >= start_day))

\* "for day in start_day..=end_day { for s in &scheds { ... } }": i is the
\* position in scheds; an absent completion of a due schedule returns false
RECURSIVE WeekScan(_, _, _, _, _, _)
WeekScan(scheds, completions, day, end_day, i, due_count) ==
    IF day > end_day THEN due_count > 0
    ELSE IF i > Len(scheds)
         THEN WeekScan(scheds, completions, day + 1, end_day, 1, due_count)
    ELSE IF is_task_due(scheds[i], day)
         THEN IF <<scheds[i].task_id, day>> \notin completions THEN FALSE
              ELSE WeekScan(scheds, completions, day, end_day, i + 1,
                            due_count + 1)
    ELSE WeekScan(scheds, completions, day, end_day, i + 1, due_count)

check_week_perfect(db, monday_day_index) ==
    WeekScan(Overlapping(db, monday_day_index, monday_day_index + 6),
             {c \in db.task_completion :
                 c[2] >= monday_day_index /\ c[2] <= monday_day_index + 6},
             monday_day_index, monday_day_index + 6, 1, 0)

\* "for _ in 0..260"
WeekCap == 260

\* the loop over past weeks; n counts the iterations done
RECURSIVE PastWeeks(_, _, _, _)
PastWeeks(db, check_monday, n, streak) ==
    IF n >= WeekCap THEN streak
    ELSE IF check_monday < 0 THEN streak
    ELSE IF check_week_perfect(db, check_monday)
         THEN PastWeeks(db, check_monday - 7, n + 1, streak + 1)
    ELSE streak

ThisMonday(now) == now - Weekday(now)

\* get_weekly_streak returning 0 at once for an imperfect current week
get_weekly_streak_StopsEarly(db, now) ==
    IF check_week_perfect(db, ThisMonday(now))
    THEN PastWeeks(db, ThisMonday(now) - 7, 0, 1)
    ELSE 0

get_weekly_streak(db, now) ==
    PastWeeks(db, ThisMonday(now) - 7, 0,
              IF check_week_perfect(db, ThisMonday(now)) THEN 1 ELSE 0)

(***************************************************************************)
(* get_month_view: whether a schedule row puts its task on a day's cell    *)
(***************************************************************************)
month_is_due(s, day) ==
    IF day < s.effective_from THEN FALSE
    ELSE IF s.effective_to # None /\ day > s.effective_to THEN FALSE
    ELSE IF s.type = "daily" THEN TRUE
    ELSE IF s.type = "weekly" THEN
        IF s.weekday_mask # None
        THEN (s.weekday_mask \div Pow2(Weekday(day))) % 2 = 1
        ELSE FALSE
    ELSE IF s.type = "monthly" THEN DayOfMonth(day) = s.monthday
    ELSE IF s.type = "custom" THEN
        IF s.interval_days # None
        THEN IF s.interval_days > 0 /\ day >= s.effective_from
             THEN (day - s.effective_from) % s.interval_days = 0
             ELSE FALSE
        ELSE FALSE
    ELSE FALSE

\* "let grid_size = 28"
GridSize == 28

\* the grid starting on the first of the month
GridStartUnaligned(year, month) == FirstOfMonth(year, month)

\* "start_of_month - Duration::days(weekday_offset)"
GridStart(year, month) ==
    LET start_of_month == FirstOfMonth(year, month)
    IN  start_of_month - Weekday(start_of_month)

\* daily_tasks left in the order of sched_list
SortTasksSkipped(daily_tasks) == daily_tasks

\* t put behind the last element of the sorted sequence whose id is not
\* greater than t's
RECURSIVE InsertTask(_, _)
InsertTask(sorted, t) ==
    IF sorted = << >> THEN <<t>>
    ELSE IF sorted[Len(sorted)].id <= t.id THEN Append(sorted, t)
    ELSE Append(InsertTask(SubSeq(sorted, 1, Len(sorted) - 1), t),
                sorted[Len(sorted)])

\* "daily_tasks.sort_by_key(|t| t.id)", a stable sort
RECURSIVE SortTasks(_)
SortTasks(daily_tasks) ==
    IF daily_tasks = << >> THEN << >>
    ELSE InsertTask(SortTasks(SubSeq(daily_tasks, 1, Len(daily_tasks) - 1)),
                    daily_tasks[Len(daily_tasks)])

\* "for s in &sched_list": i is the position in sched_list, cell holds
\* due_tasks, due_count, done_count and daily_tasks
RECURSIVE CellScan(_, _, _, _, _, _)
CellScan(db, scheds, completions, day, i, cell) ==
    IF i > Len(scheds) THEN cell
    ELSE IF month_is_due(scheds[i], day)
            /\ scheds[i].task_id \notin cell.due_tasks
    THEN LET is_done == <<scheds[i].task_id, day>> \in completions
         IN  CellScan(db, scheds, completions, day, i + 1,
                 [due_tasks |-> cell.due_tasks \cup {scheds[i].task_id},
                  due_count |-> cell.due_count + 1,
                  done_count |-> IF is_done THEN cell.done_count + 1
                                 ELSE cell.done_count,
                  daily_tasks |->
                      Append(cell.daily_tasks,
                             [id |-> scheds[i].task_id,
                              title |-> db.task[scheds[i].task_id],
                              is_done |-> is_done])])
    ELSE CellScan(db, scheds, completions, day, i + 1, cell)

\* one pass of "for day in start_day..=end_day"
MonthCell(db, scheds, completions, day) ==
    LET cell == CellScan(db, scheds, completions, day, 1,
                         [due_tasks |-> {}, due_count |-> 0,
                          done_count |-> 0, daily_tasks |-> << >>])
    IN  [day |-> day,
         due_count |-> cell.due_count,
         done_count |-> cell.done_count,
         all_done |-> cell.due_count > 0
                      /\ cell.due_count = cell.done_count,
         tasks |-> SortTasks(cell.daily_tasks)]

get_month_view(db, year, month) ==
    LET start_day == GridStart(year, month)
        end_day == start_day + (GridSize - 1)
        scheds == SelectSeq(Overlapping(db, start_day, end_day),
                            LAMBDA s : s.task_id \in DOMAIN db.task)
        completions == {c \in db.task_completion :
                           c[2] >= start_day /\ c[2] <= end_day}
    IN  [i \in 1..(end_day - start_day + 1) |->
            MonthCell(db, scheds, completions, start_day + i - 1)]

(***************************************************************************)
(* The state machine.  last is the event that happened last: a command     *)
(* with the task it named, whether it returned Ok and what it returned     *)
(* (edit_task: the number of schedule rows it added), or midnight.         *)
(***************************************************************************)
\* no command holds the mutex
Idle == [op |-> "idle"]

Last(op, task_id, ok, ret) ==
    [op |-> op, task_id |-> task_id, ok |-> ok, ret |-> ret]

Init ==
    /\ today = StartDay
    /\ task = << >>
    /\ task_seq = 0
    /\ task_schedule = << >>
    /\ task_completion = {}
    /\ task_stats = << >>
    /\ in_txn = FALSE
    /\ last = Last("init", 0, TRUE, 0)
    /\ mutex = Idle

\* a command's database becomes the state; the command has released the
\* mutex it took
Store(db) ==
    /\ mutex' = mutex
    /\ task' = db.task
    /\ task_seq' = db.task_seq
    /\ task_schedule' = db.task_schedule
    /\ task_completion' = db.task_completion
    /\ task_stats' = db.task_stats
    /\ in_txn' = db.in_txn

AddTask(descs) ==
    /\ task_seq < MaxTasks
    /\ Len(task_schedule) < MaxSchedules
    /\ \E title \in Titles, d \in descs :
          LET r == add_task(DB, title, d, today)
          IN  /\ Store(r.db)
              /\ last' = Last("add_task", r.db.task_seq, r.ok, 0)
    /\ UNCHANGED today

EditTask(descs) ==
    /\ Len(task_schedule) < MaxSchedules
    /\ \E task_id \in 1..MaxTasks, new_title \in Titles, d \in descs :
          LET r == edit_task(DB, task_id, new_title, d, today)
          IN  /\ Store(r.db)
              /\ last' = Last("edit_task", task_id, r.ok,
                              Len(r.db.task_schedule) - Len(task_schedule))
    /\ UNCHANGED today

ToggleCompletion ==
    /\ \E task_id \in 1..MaxTasks,
          day \in (today - ToggleBack)..(today + ToggleAhead) :
          LET r == toggle_completion(DB, task_id, day, today)
          IN  /\ Store(r.db)
              /\ last' = Last("toggle_completion", task_id, r.ok, 0)
    /\ UNCHANGED today

GetWeeklyStreak ==
    /\ last' = Last("get_weekly_streak", 0, TRUE, get_weekly_streak(DB, today))
    /\ UNCHANGED <<today, task, task_seq, task_schedule, task_completion,
                   task_stats, in_txn, mutex>>

\* midnight UTC: get_day_index() grows by one
AdvanceDay ==
    /\ today < MaxDay
    /\ today' = today + 1
    /\ last' = Last("midnight", 0, TRUE, 0)
    /\ UNCHANGED <<task, task_seq, task_schedule, task_completion, task_stats,
                   in_txn, mutex>>

Next ==
    \/ AddTask(MainDescs)
    \/ EditTask(MainDescs)
    \/ ToggleCompletion
    \/ GetWeeklyStreak
    \/ AdvanceDay

Spec == Init /\ [][Next]_vars

(***************************************************************************)
(* The weekend scenario: one task with the Saturday-and-Sunday rule, whose *)
(* weekend days are toggled on the day itself or the day after, over three *)
(* weeks.                                                                  *)
(***************************************************************************)
InitWeekend ==
    /\ today = WeekendStartDay
    /\ task = << >>
    /\ task_seq = 0
    /\ task_schedule = << >>
    /\ task_completion = {}
    /\ task_stats = << >>
    /\ in_txn = FALSE
    /\ last = Last("init", 0, TRUE, 0)
    /\ mutex = Idle

AddWeekendTask ==
    /\ task_seq = 0
    /\ LET r == add_task(DB, "a", Weekend, today)
       IN  /\ Store(r.db)
           /\ last' = Last("add_task", r.db.task_seq, r.ok, 0)
    /\ UNCHANGED today

ToggleWeekendDay ==
    /\ \E day \in (today - 1)..today :
          /\ Weekday(day) \in {5, 6}
          /\ LET r == toggle_completion(DB, 1, day, today)
             IN  /\ Store(r.db)
                 /\ last' = Last("toggle_completion", 1, r.ok, 0)
    /\ UNCHANGED today

AdvanceWeekendDay ==
    /\ today < WeekendStartDay + WeekendAdvance
    /\ today' = today + 1
    /\ last' = Last("midnight", 0, TRUE, 0)
    /\ UNCHANGED <<task, task_seq, task_schedule, task_completion, task_stats,
                   in_txn, mutex>>

NextWeekend ==
    \/ AddWeekendTask
    \/ ToggleWeekendDay
    \/ AdvanceWeekendDay

SpecWeekend == InitWeekend /\ [][NextWeekend]_vars

(***************************************************************************)
(* Renaming: edit_task is called with either title and with the            *)
(* descriptors of two rules.                                               *)
(***************************************************************************)
EditTitles == {"a", "b"}

RenameDescs == {Daily, Mondays}

EditTitled ==
    /\ Len(task_schedule) < MaxSchedules
    /\ \E task_id \in 1..MaxTasks, new_title \in EditTitles,
          d \in RenameDescs :
          LET r == edit_task(DB, task_id, new_title, d, today)
          IN  /\ Store(r.db)
              /\ last' = Last("edit_task", task_id, r.ok,
                              Len(r.db.task_schedule) - Len(task_schedule))
    /\ UNCHANGED today

NextRename ==
    \/ AddTask(RenameDescs)
    \/ EditTitled
    \/ ToggleCompletion
    \/ AdvanceDay

SpecRename == Init /\ [][NextRename]_vars

(***************************************************************************)
(* Commands under the mutex: every command of lib.rs starts with           *)
(* "state.db.lock().await".  edit_task and toggle_completion run one       *)
(* statement per step while they hold it; mutex.pc is the statement that   *)
(* comes next.  Midnight may fall between two statements.                  *)
(***************************************************************************)
LockStartDay == 9
LockAdvance == 1
LockTasks == 1
LockSchedules == 3

LockDescs == {Daily, Mondays, Monthly29}

ReadOps == {"list_tasks", "get_month_view", "get_weekly_streak"}

\* a lock() that does not wait for the holder
LockGrantedAlways(holder) == TRUE

\* "state.db.lock().await" returns when no command holds the mutex
LockGranted(holder) == holder = Idle

\* what the statements executed so far have left undone
Unfinished(holder) ==
    IF holder.op = "edit_task" /\ holder.pc = "reset"
    THEN "rule replaced, streak not reset"
    ELSE IF holder.op = "toggle_completion" /\ holder.pc = "stats"
    THEN "completion written, streak not recomputed"
    ELSE "settled"

InitLock ==
    /\ today = LockStartDay
    /\ task = << >>
    /\ task_seq = 0
    /\ task_schedule = << >>
    /\ task_completion = {}
    /\ task_stats = << >>
    /\ in_txn = FALSE
    /\ last = Last("init", 0, TRUE, 0)
    /\ mutex = Idle

\* one statement's database becomes the state
Apply(db) ==
    /\ task' = db.task
    /\ task_seq' = db.task_seq
    /\ task_schedule' = db.task_schedule
    /\ task_completion' = db.task_completion
    /\ task_stats' = db.task_stats
    /\ in_txn' = db.in_txn

\* the command returns and its guard is dropped
Release(ok, ret) ==
    /\ mutex' = Idle
    /\ last' = Last(mutex.op, mutex.task_id, ok, ret)

\* the command goes on to its next statement
Goto(pc) ==
    /\ mutex' = [mutex EXCEPT !.pc = pc]
    /\ last' = last

LockedAddTask ==
    /\ LockGranted(mutex)
    /\ task_seq < LockTasks
    /\ \E title \in Titles, d \in LockDescs :
          LET r == add_task(DB, title, d, today)
          IN  /\ Store(r.db)
              /\ last' = Last("add_task", r.db.task_seq, r.ok, 0)
    /\ UNCHANGED today

EditLock ==
    /\ LockGranted(mutex)
    /\ Len(task_schedule) < LockSchedules
    /\ \E task_id \in 1..LockTasks, d \in LockDescs :
          mutex' = [op |-> "edit_task", task_id |-> task_id, pc |-> "begin",
                    d |-> d, current_id |-> 0, now |-> 0]
    /\ UNCHANGED <<today, task, task_seq, task_schedule, task_completion,
                   task_stats, in_txn, last>>

\* BEGIN, the UPDATE of the title, the query of the active rule and the
\* comparison; an unchanged descriptor goes straight to COMMIT
EditBegin ==
    /\ mutex.op = "edit_task" /\ mutex.pc = "begin"
    /\ IF in_txn
       THEN /\ Release(FALSE, 0)
            /\ UNCHANGED <<task, task_seq, task_schedule, task_completion,
                           task_stats, in_txn>>
       ELSE LET db1 == [DB EXCEPT !.in_txn = TRUE]
                ids == ActiveIds(db1, mutex.task_id)
            IN  IF ids = {}
                THEN Apply(db1) /\ Release(FALSE, 0)
                ELSE IF ~schedule_changed(task_schedule[FirstId(ids)], mutex.d)
                THEN Apply(db1) /\ Goto("commit")
                ELSE /\ Apply(db1)
                     /\ mutex' = [mutex EXCEPT !.pc = "close",
                                               !.current_id = FirstId(ids),
                                               !.now = today]
                     /\ last' = last
    /\ UNCHANGED today

EditClose ==
    /\ mutex.op = "edit_task" /\ mutex.pc = "close"
    /\ Apply(CloseSchedule(DB, mutex.current_id, mutex.now))
    /\ Goto("insert")
    /\ UNCHANGED today

EditInsert ==
    /\ mutex.op = "edit_task" /\ mutex.pc = "insert"
    /\ IF ~ScheduleChecksPass(mutex.d)
       THEN /\ Release(FALSE, 0)
            /\ UNCHANGED <<task, task_seq, task_schedule, task_completion,
                           task_stats, in_txn>>
       ELSE /\ Apply(InsertSchedule(DB, mutex.task_id, mutex.now, mutex.d))
            /\ Goto("reset")
    /\ UNCHANGED today

EditReset ==
    /\ mutex.op = "edit_task" /\ mutex.pc = "reset"
    /\ Apply(ResetStats(DB, mutex.task_id))
    /\ Goto("commit")
    /\ UNCHANGED today

ToggleLock ==
    /\ LockGranted(mutex)
    /\ \E task_id \in 1..LockTasks :
          mutex' = [op |-> "toggle_completion", task_id |-> task_id,
                    pc |-> "begin", day |-> today]
    /\ UNCHANGED <<today, task, task_seq, task_schedule, task_completion,
                   task_stats, in_txn, last>>

\* BEGIN, the SELECT and the DELETE or INSERT
ToggleWrite ==
    /\ mutex.op = "toggle_completion" /\ mutex.pc = "begin"
    /\ IF in_txn
       THEN /\ Release(FALSE, 0)
            /\ UNCHANGED <<task, task_seq, task_schedule, task_completion,
                           task_stats, in_txn>>
       ELSE LET db1 == [DB EXCEPT !.in_txn = TRUE]
                c == <<mutex.task_id, mutex.day>>
            IN  IF c \in task_completion
                THEN /\ Apply([db1 EXCEPT !.task_completion = @ \ {c}])
                     /\ Goto("stats")
                ELSE IF mutex.task_id \notin DOMAIN task
                THEN Apply(db1) /\ Release(FALSE, 0)
                ELSE /\ Apply([db1 EXCEPT !.task_completion = @ \cup {c}])
                     /\ Goto("stats")
    /\ UNCHANGED today

ToggleStats ==
    /\ mutex.op = "toggle_completion" /\ mutex.pc = "stats"
    /\ Apply(update_task_stats(DB, mutex.task_id, today))
    /\ Goto("commit")
    /\ UNCHANGED today

\* COMMIT and Ok(()), of either command
Commit ==
    /\ mutex.op \in {"edit_task", "toggle_completion"}
    /\ mutex.pc = "commit"
    /\ Apply([DB EXCEPT !.in_txn = FALSE])
    /\ Release(TRUE, IF mutex.op = "edit_task" /\ mutex.current_id # 0
                     THEN 1 ELSE 0)
    /\ UNCHANGED today

\* list_tasks, get_month_view or get_weekly_streak: the read sees the
\* tables as the statements executed so far have left them
Read ==
    /\ LockGranted(mutex)
    /\ \E op \in ReadOps : last' = Last(op, 0, TRUE, Unfinished(mutex))
    /\ UNCHANGED <<today, task, task_seq, task_schedule, task_completion,
                   task_stats, in_txn, mutex>>

LockMidnight ==
    /\ today < LockStartDay + LockAdvance
    /\ today' = today + 1
    /\ last' = Last("midnight", 0, TRUE, 0)
    /\ UNCHANGED <<task, task_seq, task_schedule, task_completion, task_stats,
                   in_txn, mutex>>

NextLock ==
    \/ LockedAddTask
    \/ EditLock
    \/ EditBegin
    \/ EditClose
    \/ EditInsert
    \/ EditReset
    \/ ToggleLock
    \/ ToggleWrite
    \/ ToggleStats
    \/ Commit
    \/ Read
    \/ LockMidnight

SpecLock == InitLock /\ [][NextLock]_vars

(***************************************************************************)
(* Rules that lack their parameter: add_task is called with descriptors    *)
(* whose mask, monthday or interval is absent, or whose interval is not    *)
(* positive.                                                               *)
(***************************************************************************)
WeeklyNoMask == Desc("weekly", None, None, None)

MonthlyNoDay == Desc("monthly", None, None, None)

CustomNoInterval == Desc("custom", None, None, None)

CustomZero == Desc("custom", None, None, 0)

CustomNegative == Desc("custom", None, None, -1)

MalformedDescs ==
    {WeeklyNoMask, MonthlyNoDay, CustomNoInterval, CustomZero, CustomNegative}

NextMalformed ==
    \/ AddTask(MalformedDescs)
    \/ ToggleCompletion
    \/ GetWeeklyStreak
    \/ AdvanceDay

SpecMalformed == Init /\ [][NextMalformed]_vars

(***************************************************************************)
(* The month view: get_month_view is called for every month of a common    *)
(* and of a leap year; last.ret is the request and the cells it returned.  *)
(***************************************************************************)
ViewYears == {1970, 1972}

MonthDescs == {Daily, Mondays}

GetMonthView ==
    /\ \E year \in ViewYears, month \in 1..12 :
          last' = Last("get_month_view", 0, TRUE,
                       [year |-> year, month |-> month,
                        cells |-> get_month_view(DB, year, month)])
    /\ UNCHANGED <<today, task, task_seq, task_schedule, task_completion,
                   task_stats, in_txn, mutex>>

NextMonth ==
    \/ AddTask(MonthDescs)
    \/ ToggleCompletion
    \/ GetMonthView

SpecMonth == Init /\ [][NextMonth]_vars

(***************************************************************************)
(* The due test on its own: the database holds one task with one rule row  *)
(* of any variant, open or closed (an edit closes a rule on the day before *)
(* the edit, which is not before the day preceding effective_from), and    *)
(* both due tests are asked about the days around its start.               *)
(***************************************************************************)
DueFirstFrom == 6
DueFromSpan == 2
DueDaysBefore == 3
DueDaysAfter == 14

DueDescs ==
    {Daily}
    \cup {Desc("weekly", m, None, None) : m \in {None, 0, 1, 96, 127}}
    \cup {Desc("monthly", None, md, None) : md \in {None, 7, 15, 28}}
    \cup {Desc("custom", None, None, i) : i \in {None, -1, 0, 1, 2, 3, 7}}

DueDays == (DueFirstFrom - DueDaysBefore)..(DueFirstFrom + DueDaysAfter)

InitDue ==
    /\ today = DueFirstFrom + DueDaysAfter
    /\ task = <<"a">>
    /\ task_seq = 1
    /\ \E d \in DueDescs,
          from \in DueFirstFrom..(DueFirstFrom + DueFromSpan) :
          \E to \in {None} \cup ((from - 1)..(from + 2)) :
             task_schedule =
                 <<[NewSchedule(1, from, d) EXCEPT !.effective_to = to]>>
    /\ task_completion = {}
    /\ task_stats = <<[current_streak |-> 0, best_streak |-> 0,
                       last_completed_day |-> None]>>
    /\ in_txn = FALSE
    /\ last = Last("init", 0, TRUE, 0)
    /\ mutex = Idle

\* the streak scan or week check (is_task_due) and the month view (its own
\* test) decide whether the rule is due on a day
AskDue ==
    /\ \E day \in DueDays :
          last' = Last("is_task_due", 1, TRUE,
                       [day |-> day,
                        due |-> is_task_due(task_schedule[1], day),
                        month_due |-> month_is_due(task_schedule[1], day)])
    /\ UNCHANGED <<today, task, task_seq, task_schedule, task_completion,
                   task_stats, in_txn, mutex>>

NextDue == AskDue

SpecDue == InitDue /\ [][NextDue]_vars

(***************************************************************************)
(* A long streak: one daily task was created on day 0 and today is about   *)
(* ScanCap days later.  Today the user has completed every day up to the   *)
(* day before yesterday, oldest first (each recompute stopped at           *)
(* yesterday, so both streaks are 0), and now toggles yesterday and today. *)
(* The while loop of update_task_stats runs one pass per step; mutex holds *)
(* its loop_day and current_streak, and examined counts the passes.        *)
(***************************************************************************)
CapFirstToday == 999
CapLastToday == 1001

InitCap ==
    /\ today \in CapFirstToday..CapLastToday
    /\ task = <<"a">>
    /\ task_seq = 1
    /\ task_schedule = <<NewSchedule(1, 0, Daily)>>
    /\ task_completion = {<<1, d>> : d \in 0..(today - 2)}
    /\ task_stats = <<[current_streak |-> 0, best_streak |-> 0,
                       last_completed_day |-> None]>>
    /\ in_txn = FALSE
    /\ last = Last("init", 0, TRUE, 0)
    /\ mutex = Idle

\* toggle_completion up to the while loop of update_task_stats: BEGIN, the
\* DELETE or INSERT, the query of the active rule and the start of loop_day
CapToggle ==
    /\ LockGranted(mutex)
    /\ ~in_txn
    /\ \E day \in (today - 1)..today :
          LET c == <<1, day>>
              completion == IF c \in task_completion
                            THEN task_completion \ {c}
                            ELSE task_completion \cup {c}
          IN  /\ task_completion' = completion
              /\ mutex' = [op |-> "toggle_completion", task_id |-> 1,
                           pc |-> "scan",
                           schedule |-> task_schedule[FirstId(ActiveIds(DB, 1))],
                           loop_day |-> IF <<1, today>> \in completion
                                        THEN today ELSE today - 1,
                           current_streak |-> 0,
                           examined |-> 0]
    /\ in_txn' = TRUE
    /\ UNCHANGED <<today, task, task_seq, task_schedule, task_stats, last>>

\* one pass through the body of "while loop_day >= min_day"
CapScanStep ==
    /\ mutex.op = "toggle_completion" /\ mutex.pc = "scan"
    /\ mutex.loop_day >= mutex.schedule.effective_from
    /\ mutex' =
          IF is_task_due(mutex.schedule, mutex.loop_day)
             /\ <<1, mutex.loop_day>> \notin task_completion
          THEN [mutex EXCEPT !.pc = "update", !.examined = @ + 1]
          ELSE [mutex EXCEPT
                  !.current_streak =
                      IF is_task_due(mutex.schedule, mutex.loop_day)
                      THEN @ + 1 ELSE @,
                  !.loop_day = @ - 1,
                  !.pc = IF today - (mutex.loop_day - 1) > ScanCap
                         THEN "update" ELSE "scan",
                  !.examined = @ + 1]
    /\ UNCHANGED <<today, task, task_seq, task_schedule, task_completion,
                   task_stats, in_txn, last>>

\* the loop has ended: the UPDATE of task_stats, COMMIT and Ok(())
CapUpdate ==
    /\ mutex.op = "toggle_completion"
    /\ \/ mutex.pc = "update"
       \/ /\ mutex.pc = "scan"
          /\ mutex.loop_day < mutex.schedule.effective_from
    /\ task_stats' = [task_stats EXCEPT ![1] =
                         [@ EXCEPT !.current_streak = mutex.current_streak,
                                   !.best_streak =
                                       Max(@, mutex.current_streak)]]
    /\ in_txn' = FALSE
    /\ mutex' = Idle
    /\ last' = Last("toggle_completion", 1, TRUE, mutex.examined)
    /\ UNCHANGED <<today, task, task_seq, task_schedule, task_completion>>

NextCap ==
    \/ CapToggle
    \/ CapScanStep
    \/ CapUpdate

SpecCap == InitCap /\ [][NextCap]_vars

(***************************************************************************)
(* Many weeks: one task was created on day 0 (a Thursday) with the         *)
(* Thursdays rule.  Today, a Monday some 260 weeks later, the user has     *)
(* completed the Thursdays oldest first up to the one before last (each    *)
(* recompute stopped at the last Thursday: streaks 0), has replaced the    *)
(* rule by the Mondays rule and has then completed the last Thursday.      *)
(* Now the user toggles today, the last Thursday and the Thursday two      *)
(* weeks before it, and asks for the weekly streak, whose loop over the    *)
(* past weeks runs one pass per step; mutex holds check_monday and streak, *)
(* and weeks counts the passes that called check_week_perfect.             *)
(***************************************************************************)
WeeksFirst == 259
WeeksLast == 262

\* weekday_mask bit 3: Thursdays
Thursdays == Desc("weekly", 8, None, None)

InitWeeks ==
    /\ \E n \in WeeksFirst..WeeksLast :
          /\ today = 7 * n - 3
          /\ task_completion = {<<1, 7 * k>> : k \in 0..(n - 1)}
    /\ task = <<"a">>
    /\ task_seq = 1
    /\ task_schedule =
          <<[NewSchedule(1, 0, Thursdays) EXCEPT !.effective_to = today - 1],
            NewSchedule(1, today, Mondays)>>
    /\ task_stats = <<[current_streak |-> 0, best_streak |-> 0,
                       last_completed_day |-> None]>>
    /\ in_txn = FALSE
    /\ last = Last("init", 0, TRUE, 0)
    /\ mutex = Idle

WeeksToggle ==
    /\ LockGranted(mutex)
    /\ \E day \in {today, today - 4, today - 18} :
          LET r == toggle_completion(DB, 1, day, today)
          IN  /\ Store(r.db)
              /\ last' = Last("toggle_completion", 1, r.ok, 0)
    /\ UNCHANGED today

\* "if check_monday < 0 { break; }" never taken
PastFloorNever(check_monday) == FALSE

\* "if check_monday < 0 { break; }"
PastFloor(check_monday) == check_monday < 0

\* get_weekly_streak up to its loop: this_monday and the current week
WeeksBegin ==
    /\ LockGranted(mutex)
    /\ mutex' = [op |-> "get_weekly_streak", pc |-> "loop",
                 check_monday |-> ThisMonday(today) - 7,
                 i |-> 0,
                 streak |-> IF check_week_perfect(DB, ThisMonday(today))
                            THEN 1 ELSE 0,
                 weeks |-> 0]
    /\ UNCHANGED <<today, task, task_seq, task_schedule, task_completion,
                   task_stats, in_txn, last>>

\* one pass through the body of "for _ in 0..260"
WeeksStep ==
    /\ mutex.op = "get_weekly_streak" /\ mutex.pc = "loop"
    /\ mutex.i < WeekCap
    /\ mutex' =
          IF PastFloor(mutex.check_monday)
          THEN [mutex EXCEPT !.pc = "return"]
          ELSE IF check_week_perfect(DB, mutex.check_monday)
          THEN [mutex EXCEPT !.streak = @ + 1,
                             !.check_monday = @ - 7,
                             !.i = @ + 1,
                             !.weeks = @ + 1]
          ELSE [mutex EXCEPT !.pc = "return", !.weeks = @ + 1]
    /\ UNCHANGED <<today, task, task_seq, task_schedule, task_completion,
                   task_stats, in_txn, last>>

\* "Ok(streak)", after a break or after the last pass
WeeksReturn ==
    /\ mutex.op = "get_weekly_streak"
    /\ mutex.pc = "return" \/ mutex.i >= WeekCap
    /\ last' = Last("get_weekly_streak", 0, TRUE,
                    [streak |-> mutex.streak, weeks |-> mutex.weeks,
                     check_monday |-> mutex.check_monday])
    /\ mutex' = Idle
    /\ UNCHANGED <<today, task, task_seq, task_schedule, task_completion,
                   task_stats, in_txn>>

NextWeeks ==
    \/ WeeksToggle
    \/ WeeksBegin
    \/ WeeksStep
    \/ WeeksReturn

SpecWeeks == InitWeeks /\ [][NextWeeks]_vars

\* a get_weekly_streak that has started keeps running until it returns
SpecWeeksFair ==
    SpecWeeks /\ WF_vars(WeeksStep) /\ WF_vars(WeeksReturn)

(***************************************************************************)
(* The month view of a changing database: tasks are created, edited and    *)
(* completed over the days of the main scenario, and the view of January   *)
(* 1970, whose grid holds these days, is asked for.                        *)
(***************************************************************************)
GetJanuaryView ==
    /\ last' = Last("get_month_view", 0, TRUE,
                    [year |-> 1970, month |-> 1,
                     cells |-> get_month_view(DB, 1970, 1)])
    /\ UNCHANGED <<today, task, task_seq, task_schedule, task_completion,
                   task_stats, in_txn, mutex>>

NextMonthEdit ==
    \/ AddTask(MonthDescs)
    \/ EditTask(MonthDescs)
    \/ ToggleCompletion
    \/ AdvanceDay
    \/ GetJanuaryView

SpecMonthEdit == Init /\ [][NextMonthEdit]_vars

(***************************************************************************)
(* Properties.                                                             *)
(***************************************************************************)
Stored(task_id) == task_stats[task_id].current_streak

ActiveRule(task_id) == task_schedule[FirstId(ActiveIds(DB, task_id))]

ToggledOk == last.op = "toggle_completion" /\ last.ok

\* edit_task returned Ok and replaced the active rule of last.task_id
Replaced == last.op = "edit_task" /\ last.ok /\ last.ret = 1

ToggleTwice(task_id, day) ==
    toggle_completion(toggle_completion(DB, task_id, day, today).db,
                      task_id, day, today).db

\* C1: two consecutive toggle_completion(task, day) calls leave the
\* completion set and the task's stored current_streak as they were before
\* the first call, from every reachable state.
C1_ToggleTwiceRestores ==
    ~in_txn =>
        \A task_id \in DOMAIN task_stats :
            \A day \in (today - 1)..(today + 1) :
                /\ ToggleTwice(task_id, day).task_completion = task_completion
                /\ ToggleTwice(task_id, day).task_stats[task_id].current_streak
                       = Stored(task_id)

\* C2: a rule whose effective_to is set is not due on any day after
\* effective_to, in is_task_due (streak scan, week-perfect check) and in
\* the month view alike.
C2_NotDueAfterEffectiveTo ==
    \A i \in 1..Len(task_schedule) :
        task_schedule[i].effective_to # None =>
            \A day \in (task_schedule[i].effective_to + 1)..(MaxDay + 7) :
                /\ ~is_task_due(task_schedule[i], day)
                /\ ~month_is_due(task_schedule[i], day)

\* C3 as stated: after every toggle_completion the stored current_streak
\* is at most today - effective_from of the active rule.
C3_StreakAtMostAge ==
    ToggledOk =>
        Stored(last.task_id) <= today - ActiveRule(last.task_id).effective_from

\* C3: after every toggle_completion the task has an active rule and the
\* stored current_streak is at most today - effective_from + 1, the number
\* of days of [effective_from, today].
C3_StreakAtMostDaysScanned ==
    ToggledOk =>
        /\ ActiveIds(DB, last.task_id) # {}
        /\ Stored(last.task_id)
               <= today - ActiveRule(last.task_id).effective_from + 1

\* a toggle left a streak that counts every day of [effective_from, today],
\* two of them or more
C3_Witness ==
    /\ ToggledOk
    /\ Stored(last.task_id) >= 2
    /\ Stored(last.task_id)
           = today - ActiveRule(last.task_id).effective_from + 1

\* C4: in every reachable state each task's stored best_streak is at least
\* its stored current_streak.
C4_BestAtLeastCurrent ==
    \A task_id \in DOMAIN task_stats :
        task_stats[task_id].best_streak >= task_stats[task_id].current_streak

\* a toggle lowered the streak of a task below its best
C4_Witness ==
    /\ ToggledOk
    /\ task_stats[last.task_id].best_streak >= 2
    /\ Stored(last.task_id) < task_stats[last.task_id].best_streak

WeeklyStreakReturned == last.op = "get_weekly_streak"

CurrentWeekPerfect == check_week_perfect(DB, ThisMonday(today))

\* the k weeks before the current one start on day 0 or later and are perfect
PerfectRun(k) ==
    \A j \in 1..k :
        /\ ThisMonday(today) - 7 * j >= 0
        /\ check_week_perfect(DB, ThisMonday(today) - 7 * j)

\* C5 as stated: get_weekly_streak returns 0 whenever the current week is
\* not perfect.
C5_ZeroWhenCurrentWeekImperfect ==
    (WeeklyStreakReturned /\ ~CurrentWeekPerfect) => last.ret = 0

\* C5: when the current week is not perfect, get_weekly_streak returns the
\* number of consecutive perfect weeks that end right before the current
\* week (at most 260, none starting before day 0).
C5_CountsWeeksBeforeImperfectWeek ==
    (WeeklyStreakReturned /\ ~CurrentWeekPerfect) =>
        /\ last.ret \in 0..WeekCap
        /\ PerfectRun(last.ret)
        /\ (last.ret < WeekCap => ~PerfectRun(last.ret + 1))

\* get_weekly_streak returned for an imperfect current week that follows a
\* perfect week
C5_Witness ==
    /\ WeeklyStreakReturned
    /\ ~CurrentWeekPerfect
    /\ PerfectRun(1)
    /\ last.ret = 1

\* due(rule, day) of the rule's validity interval
DueInInterval(s, day) ==
    /\ is_task_due(s, day)
    /\ (s.effective_to = None \/ day <= s.effective_to)

Obligations(monday) ==
    {x \in (1..Len(task_schedule)) \X (monday..(monday + 6)) :
        DueInInterval(task_schedule[x[1]], x[2])}

\* C7: check_week_perfect(monday) is true exactly when some rule is due in
\* [monday, monday+6] and every (rule, day) of the week on which the rule
\* is due has its completion.
C7_PerfectIffAllDueDone ==
    \A monday \in {ThisMonday(today), ThisMonday(today) - 7} :
        check_week_perfect(DB, monday)
            <=> /\ Obligations(monday) # {}
                /\ \A x \in Obligations(monday) :
                      <<task_schedule[x[1]].task_id, x[2]>> \in task_completion

\* C8: right after an edit_task that replaced the active rule, the task's
\* current_streak is 0 and its last_completed_day is cleared.
C8_EditResetsStreak ==
    Replaced =>
        /\ Stored(last.task_id) = 0
        /\ task_stats[last.task_id].last_completed_day = None

\* the replaced rule had a streak, today is completed, and the new rule is
\* due on the same days as the old one
C8_Witness ==
    /\ Replaced
    /\ task_stats[last.task_id].best_streak >= 1
    /\ <<last.task_id, today>> \in task_completion
    /\ \E i \in 1..Len(task_schedule) :
          /\ task_schedule[i].task_id = last.task_id
          /\ task_schedule[i].effective_to = today - 1
          /\ task_schedule[i].type = "daily"
          /\ ActiveRule(last.task_id).type = "custom"
          /\ ActiveRule(last.task_id).interval_days = 1

\* the fields of a rule an edit must not touch
Frozen(s) ==
    [task_id |-> s.task_id, effective_from |-> s.effective_from,
     type |-> s.type, weekday_mask |-> s.weekday_mask,
     monthday |-> s.monthday, interval_days |-> s.interval_days]

\* C9: an edit_task step on day T alters no stored rule's variant,
\* parameters or effective_from, and so no rule's due-ness before T; when
\* it returns Ok it either leaves task_schedule alone or sets
\* effective_to = T-1 on the active rule of the task, leaves every other
\* row as it is and appends one rule with effective_from = T.
C9_EditKeepsHistory ==
    [][last'.op = "edit_task" /\ task_schedule' # task_schedule =>
        /\ Len(task_schedule') >= Len(task_schedule)
        /\ \A i \in 1..Len(task_schedule) :
              /\ Frozen(task_schedule'[i]) = Frozen(task_schedule[i])
              /\ \A day \in (StartDay - 7)..(today - 1) :
                    is_task_due(task_schedule'[i], day)
                        = is_task_due(task_schedule[i], day)
        /\ last'.ok =>
              /\ Len(task_schedule') = Len(task_schedule) + 1
              /\ ActiveIds(DB, last'.task_id) # {}
              /\ \A i \in 1..Len(task_schedule) :
                    IF i = FirstId(ActiveIds(DB, last'.task_id))
                    THEN task_schedule'[i].effective_to = today - 1
                    ELSE task_schedule'[i] = task_schedule[i]
              /\ task_schedule'[Len(task_schedule')].task_id = last'.task_id
              /\ task_schedule'[Len(task_schedule')].effective_from = today
              /\ task_schedule'[Len(task_schedule')].effective_to = None
    ]_vars

\* an edit closed a Daily rule that was created on an earlier day
C9_Witness ==
    /\ Replaced
    /\ \E i \in 1..Len(task_schedule) :
          /\ task_schedule[i].task_id = last.task_id
          /\ task_schedule[i].type = "daily"
          /\ task_schedule[i].effective_from < today
          /\ task_schedule[i].effective_to = today - 1
          /\ is_task_due(task_schedule[i], today - 1)

\* C10: in every reachable state each task has at most one rule whose
\* effective_to is unbounded.
C10_OneActiveRule ==
    \A task_id \in 1..MaxTasks : Cardinality(ActiveIds(DB, task_id)) <= 1

\* a task was edited twice on one day
C10_Witness ==
    /\ Replaced
    /\ Cardinality({i \in 1..Len(task_schedule) :
                       /\ task_schedule[i].task_id = last.task_id
                       /\ task_schedule[i].effective_from = today}) >= 2
    /\ Cardinality({i \in 1..Len(task_schedule) :
                       task_schedule[i].task_id = last.task_id}) >= 3
    /\ Cardinality(ActiveIds(DB, last.task_id)) = 1

\* the Saturdays and Sundays of the three weeks before a Monday
ThreeWeekends(monday) ==
    {monday - 16, monday - 15, monday - 9, monday - 8, monday - 2, monday - 1}

\* today is a Monday, the task's active rule is the weekend rule, created
\* on or before the first of the three Saturdays, and the task's
\* completions are the six weekend days and no other day
WeekendsDone(task_id) ==
    /\ Weekday(today) = 0
    /\ ActiveIds(DB, task_id) # {}
    /\ ActiveRule(task_id).type = "weekly"
    /\ ActiveRule(task_id).weekday_mask = 96
    /\ ActiveRule(task_id).effective_from <= today - 16
    /\ CompletedDays(DB, task_id) = ThreeWeekends(today)

StreakOnMonday(task_id) ==
    ComputeStreak(ActiveRule(task_id), CompletedDays(DB, task_id), today)

\* C6 as stated: with both weekend days of three consecutive weeks
\* completed, the weekend task's current_streak is 3 on the Monday after.
C6_WeekendStreakIsThree ==
    \A task_id \in DOMAIN task_stats :
        WeekendsDone(task_id) =>
            /\ StreakOnMonday(task_id) = 3
            /\ (ToggledOk => Stored(task_id) = 3)

\* C6: with both weekend days of three consecutive weeks completed, the
\* weekend task's current_streak is 6 on the Monday after (one per
\* completed due day), as recomputed on that Monday and as stored by a
\* toggle_completion made on that Monday.
C6_WeekendStreakIsSix ==
    \A task_id \in DOMAIN task_stats :
        WeekendsDone(task_id) =>
            /\ StreakOnMonday(task_id) = 6
            /\ (ToggledOk => Stored(task_id) = 6)

\* the third Sunday was toggled on, on the Monday after it
C6_Witness ==
    /\ ToggledOk
    /\ WeekendsDone(last.task_id)
    /\ Stored(last.task_id) = 6

\* the descriptor of a stored rule
DescOf(s) == Desc(s.type, s.weekday_mask, s.monthday, s.interval_days)

\* C11: an edit_task step whose descriptor equals the active rule's in
\* every field returns Ok and leaves task_schedule, task_stats and
\* task_completion as they were; of the task table it changes only the
\* title of the task.
C11_SameDescriptorKeepsSchedule ==
    [][\A task_id \in 1..MaxTasks, new_title \in EditTitles :
          (/\ ~in_txn
           /\ ActiveIds(DB, task_id) # {}
           /\ last'.op = "edit_task"
           /\ last'.task_id = task_id
           /\ DB' = edit_task(DB, task_id, new_title,
                              DescOf(ActiveRule(task_id)), today).db)
          => /\ last'.ok
             /\ task_schedule' = task_schedule
             /\ task_stats' = task_stats
             /\ task_completion' = task_completion
             /\ task' = [task EXCEPT ![task_id] = new_title]
    ]_vars

\* an edit with the active rule's descriptor renamed a task that has a
\* streak
C11_Witness ==
    /\ last.op = "edit_task"
    /\ last.ok
    /\ last.ret = 0
    /\ task[last.task_id] = "b"
    /\ Stored(last.task_id) >= 1
    /\ ActiveRule(last.task_id).type = "weekly"

\* C12: a toggle_completion step that returns Ok removes the completion
\* (task, day) when it is present and inserts it when it is absent, changes
\* no other completion, no rule and no other task's stats, and leaves the
\* task's current_streak equal to the streak of the new completion set.
C12_ToggleFlipsOne ==
    [][(last'.op = "toggle_completion" /\ last'.ok) =>
        /\ \E day \in (today - ToggleBack)..(today + ToggleAhead) :
              IF <<last'.task_id, day>> \in task_completion
              THEN task_completion'
                       = task_completion \ {<<last'.task_id, day>>}
              ELSE task_completion'
                       = task_completion \cup {<<last'.task_id, day>>}
        /\ task_schedule' = task_schedule
        /\ task' = task
        /\ DOMAIN task_stats' = DOMAIN task_stats
        /\ \A other \in DOMAIN task_stats :
              other # last'.task_id => task_stats'[other] = task_stats[other]
        /\ ActiveIds(DB', last'.task_id) # {}
        /\ task_stats'[last'.task_id].current_streak
               = ComputeStreak(
                     task_schedule'[FirstId(ActiveIds(DB', last'.task_id))],
                     CompletedDays(DB', last'.task_id), today)
        /\ ~in_txn'
    ]_vars

\* a toggle removed today's completion of one task, which ended its streak,
\* while the other task keeps a completion and its streak
C12_Witness ==
    /\ ToggledOk
    /\ <<last.task_id, today>> \notin task_completion
    /\ Stored(last.task_id) = 0
    /\ task_stats[last.task_id].best_streak >= 1
    /\ \E other \in DOMAIN task_stats :
          /\ other # last.task_id
          /\ <<other, today>> \in task_completion
          /\ Stored(other) >= 1

\* C13: no read (list_tasks, get_month_view, get_weekly_streak) sees the
\* tables between the statements of a command: neither after edit_task has
\* inserted the new rule and before it has reset the streak, nor after
\* toggle_completion has written the completion and before it has
\* recomputed the streak.
C13_ReadsSeeSettledState ==
    last.op \in ReadOps => last.ret = "settled"

\* a read after a rule has been replaced and a day has been completed
C13_Witness ==
    /\ last.op = "list_tasks"
    /\ \E i \in DOMAIN task_schedule :
          task_schedule[i].effective_to # None
    /\ \E i \in DOMAIN task_schedule :
          /\ task_schedule[i].effective_to = None
          /\ Len(task_schedule) > 1
    /\ task_completion # {}

\* the days a streak scan, a week check or a month grid of the scenario
\* can look at
MalformedDays == (StartDay - 7)..(MaxDay + 28)

\* no stored rule is due on any day, for is_task_due and for the month view;
\* no streak is counted and the weekly streak is 0
MalformedNeverDue ==
    /\ \A i \in DOMAIN task_schedule : \A day \in MalformedDays :
          /\ ~is_task_due(task_schedule[i], day)
          /\ ~month_is_due(task_schedule[i], day)
    /\ \A t \in DOMAIN task_stats : Stored(t) = 0
    /\ last.op = "get_weekly_streak" => last.ret = 0

\* C14: add_task (on a connection without an open transaction) accepts a
\* weekly rule without mask, a monthly rule without monthday and a custom
\* rule whose interval is absent or not positive, and stores it; the stored
\* rule is due on no day: not for is_task_due (streak scan and week check),
\* not for the month view, so no streak is counted and no week is perfect.
C14_MalformedRuleNeverDue ==
    [][/\ (last'.op = "add_task" /\ ~in_txn) =>
              /\ last'.ok
              /\ Len(task_schedule') = Len(task_schedule) + 1
              /\ DescOf(task_schedule'[Len(task_schedule')]) \in MalformedDescs
       /\ MalformedNeverDue']_vars

\* every kind of malformed rule is stored (two at a time), and a day on or
\* after its start has been completed
C14_Witness ==
    /\ Len(task_schedule) = 2
    /\ task_schedule[1].type = "weekly"
    /\ task_schedule[2].type = "custom"
    /\ task_schedule[2].interval_days = 0
    /\ last.op = "toggle_completion" /\ last.ok
    /\ \E c \in task_completion : c[1] = 1 /\ c[2] > task_schedule[1].effective_from

MonthViewReturned == last.op = "get_month_view"

DueAsked == last.op = "is_task_due"

\* C16: whatever the rule's variant, it is not due on a day before its
\* effective_from, neither for is_task_due nor for the month view.
C16_NotDueBeforeStart ==
    (DueAsked /\ last.ret.day < task_schedule[1].effective_from) =>
        ~last.ret.due /\ ~last.ret.month_due

\* a daily rule asked about the day before its start
C16_Witness ==
    /\ DueAsked
    /\ task_schedule[1].type = "daily"
    /\ last.ret.day = task_schedule[1].effective_from - 1
    /\ ~last.ret.due

\* the day lies between effective_from and effective_to
InValidity(s, day) ==
    /\ day >= s.effective_from
    /\ s.effective_to = None \/ day <= s.effective_to

\* C17: within its validity interval a custom rule with interval > 0 is due
\* exactly on the days whose distance from effective_from is a multiple of
\* the interval (so on effective_from itself); with interval <= 0 it is due
\* on no day.
C17_CustomEveryInterval ==
    (DueAsked /\ task_schedule[1].type = "custom"
              /\ task_schedule[1].interval_days # None) =>
        LET s == task_schedule[1]
            day == last.ret.day
        IN  /\ (s.interval_days > 0 /\ InValidity(s, day)) =>
                  /\ last.ret.due <=>
                        (day - s.effective_from) % s.interval_days = 0
                  /\ last.ret.month_due <=>
                        (day - s.effective_from) % s.interval_days = 0
                  /\ day = s.effective_from => last.ret.due
            /\ s.interval_days <= 0 =>
                  ~last.ret.due /\ ~last.ret.month_due

\* an open rule of interval 3 asked about the second day it is due on
C17_Witness ==
    /\ DueAsked
    /\ task_schedule[1].type = "custom"
    /\ task_schedule[1].interval_days = 3
    /\ task_schedule[1].effective_to = None
    /\ last.ret.day = task_schedule[1].effective_from + 3
    /\ last.ret.due /\ last.ret.month_due

\* the day the walk starts on
WalkStart(task_id) ==
    IF <<task_id, today>> \in task_completion THEN today ELSE today - 1

\* the due days without completion between effective_from and the start
MissedDays(task_id) ==
    {d \in ActiveRule(task_id).effective_from..WalkStart(task_id) :
        /\ is_task_due(ActiveRule(task_id), d)
        /\ <<task_id, d>> \notin task_completion}

\* the last day of the walk: the day after the latest missed day, or
\* effective_from
WalkEnd(task_id) ==
    IF MissedDays(task_id) = {} THEN ActiveRule(task_id).effective_from
    ELSE 1 + CHOOSE d \in MissedDays(task_id) :
                 \A e \in MissedDays(task_id) : e <= d

CompletedDueDays(task_id) ==
    {d \in WalkEnd(task_id)..WalkStart(task_id) :
        /\ is_task_due(ActiveRule(task_id), d)
        /\ <<task_id, d>> \in task_completion}

C20_BestNeverDecreases ==
    [][\A t \in DOMAIN task_stats :
          /\ task_stats'[t].best_streak >= task_stats[t].best_streak
          /\ (last'.op = "toggle_completion" /\ last'.task_id = t) =>
                task_stats'[t].best_streak =
                    Max(task_stats[t].best_streak,
                        task_stats'[t].current_streak)
          /\ last'.op = "edit_task" =>
                task_stats'[t].best_streak = task_stats[t].best_streak]_vars

\* a task whose rule was replaced after a streak of 2 and whose streak under
\* the new rule is 1: best_streak is still 2
C20_Witness ==
    /\ ToggledOk
    /\ Cardinality({i \in DOMAIN task_schedule :
                       task_schedule[i].task_id = last.task_id}) >= 2
    /\ task_stats[last.task_id].current_streak = 1
    /\ task_stats[last.task_id].best_streak = 2

\* C19: a recompute examines at most 1000 days, however old the rule is
\* and whether or not today is completed, and the stored streak is at most
\* 1000.
C19_ScanAtMostThousandDays ==
    /\ mutex.op = "toggle_completion" => mutex.examined <= 1000
    /\ ToggledOk => last.ret <= 1000
    /\ \A t \in DOMAIN task_stats : Stored(t) <= 1000

\* get_weekly_streak is between its statements
WeeklyRunning == mutex.op = "get_weekly_streak"

\* get_weekly_streak has returned and no command has started since
WeeklyDone == WeeklyStreakReturned /\ mutex = Idle

\* C21: the loop of get_weekly_streak makes at most 260 passes; pass i looks
\* at the week 7 * i days before the current one; it has counted every week
\* it found perfect; it stops at the first week that is not perfect or whose
\* Monday is before day 0; and a call that has started returns.
C21_WeeklyLoopBounded ==
    /\ [](WeeklyRunning =>
            /\ mutex.i \in 0..260
            /\ mutex.weeks <= 260
            /\ mutex.check_monday = ThisMonday(today) - 7 * (mutex.i + 1)
            /\ mutex.streak \in {mutex.i, mutex.i + 1})
    /\ [](WeeklyDone =>
            /\ last.ret.weeks \in 0..260
            /\ last.ret.streak =
                  (IF CurrentWeekPerfect THEN 1 ELSE 0)
                  + Cardinality({j \in 1..260 : PerfectRun(j)})
            /\ ThisMonday(today) - last.ret.check_monday <= 7 * 261)
    /\ (WeeklyRunning ~> ~WeeklyRunning)

\* a call that made all 260 passes although a 261st perfect week lies before
\* them, with a perfect current week
C21_Witness ==
    /\ WeeklyDone
    /\ last.ret.weeks = 260
    /\ last.ret.streak = 261
    /\ last.ret.check_monday >= 0
    /\ check_week_perfect(DB, last.ret.check_monday)

\* C22: in every cell of a month view the tasks are in strictly ascending
\* order of id (so no task is listed twice), due_count is the number of
\* tasks listed, done_count the number of them with is_done, which is at
\* most due_count, and all_done says that due_count > 0 and
\* due_count = done_count.
C22_CellCountsMatchTasks ==
    MonthViewReturned =>
        \A n \in DOMAIN last.ret.cells :
            LET cell == last.ret.cells[n]
            IN  /\ \A i, j \in DOMAIN cell.tasks :
                      i < j => cell.tasks[i].id < cell.tasks[j].id
                /\ cell.due_count = Len(cell.tasks)
                /\ cell.done_count =
                      Cardinality({k \in DOMAIN cell.tasks :
                                      cell.tasks[k].is_done})
                /\ cell.done_count <= cell.due_count
                /\ cell.all_done <=>
                      (cell.due_count > 0
                       /\ cell.due_count = cell.done_count)

\* task 1 has a closed and an active rule in the grid, the row of task 2
\* lies between them, and a cell lists task 1 (not done) before task 2
\* (done)
C22_Witness ==
    /\ MonthViewReturned
    /\ Len(task_schedule) = 3
    /\ task_schedule[1].task_id = 1 /\ task_schedule[1].effective_to # None
    /\ task_schedule[2].task_id = 2
    /\ task_schedule[3].task_id = 1
    /\ \E n \in DOMAIN last.ret.cells :
          /\ Len(last.ret.cells[n].tasks) = 2
          /\ last.ret.cells[n].tasks[1].id = 1
          /\ ~last.ret.cells[n].tasks[1].is_done
          /\ last.ret.cells[n].tasks[2].is_done
          /\ last.ret.cells[n].done_count = 1
          /\ ~last.ret.cells[n].all_done

\* the seven cells of the grid's week w (0 is the first) show every due
\* task done and at least one task due
WeekOfCellsPerfect(cells, w) ==
    /\ \A n \in (7 * w + 1)..(7 * w + 7) :
          cells[n].done_count = cells[n].due_count
    /\ \E n \in (7 * w + 1)..(7 * w + 7) : cells[n].due_count > 0

\* C23: for each of the four weeks of a month-view grid,
\* check_week_perfect of its Monday is true exactly when the week's seven
\* cells have done_count = due_count and one of them has due_count > 0.
C23_WeekCheckAgreesWithMonthView ==
    MonthViewReturned =>
        \A w \in 0..3 :
            check_week_perfect(DB, last.ret.cells[7 * w + 1].day)
                <=> WeekOfCellsPerfect(last.ret.cells, w)

MutatingOps == {"add_task", "edit_task", "toggle_completion"}

\* C24: when add_task, edit_task or toggle_completion returns an error, the
\* tables are as they were before the call and no transaction is open.
C24_FailureLeavesNothing ==
    [][(last'.op \in MutatingOps /\ ~last'.ok) =>
          /\ task' = task
          /\ task_schedule' = task_schedule
          /\ task_completion' = task_completion
          /\ task_stats' = task_stats
          /\ ~in_txn']_vars

\* day lies in [effective_from, effective_to] of the rule; an absent
\* effective_to leaves the interval open
Governs(s, day) ==
    /\ s.effective_from <= day
    /\ s.effective_to = None \/ day <= s.effective_to

\* the days on which a rule of the model can start or end, and the days
\* around them
RuleDays == (StartDay - 2)..(MaxDay + 2)

\* C25: no day lies in the validity interval of two different rules of the
\* same task.
C25_RulesOfATaskDoNotOverlap ==
    \A i, j \in DOMAIN task_schedule :
        (i # j /\ task_schedule[i].task_id = task_schedule[j].task_id) =>
            \A day \in RuleDays :
                ~(Governs(task_schedule[i], day)
                  /\ Governs(task_schedule[j], day))

\* a task edited on its creation day and again on a later day: its first
\* rule governs no day, its second rule governs days, its third is open
C25_Witness ==
    /\ Len(task_schedule) = 3
    /\ \A i \in 1..3 : task_schedule[i].task_id = 1
    /\ task_schedule[1].effective_to < task_schedule[1].effective_from
    /\ task_schedule[2].effective_from = task_schedule[1].effective_from
    /\ task_schedule[2].effective_to >= task_schedule[2].effective_from
    /\ task_schedule[3].effective_to = None
    /\ Replaced

====
